---- MODULE Spec2Model ----
(***************************************************************************)
(* Model of the chunking engine of local-rag-engine:                       *)
(*   src/src/utils/token-counter.ts        estimateTokenCount              *)
(*   src/src/services/chunking.service.ts  DefaultChunkingService          *)
(* A text is a sequence of one-character strings.  Every string operation  *)
(* of the source (trim, split, substring, join) is computed on that        *)
(* sequence as JavaScript computes it on the string.                       *)
(***************************************************************************)
EXTENDS Integers, Sequences, FiniteSets, TLC

\* ---------------------------------------------------------------- bounds
\* Longest text of the exhaustively enumerated inputs.
MaxLen == 5
\* Largest maxChunkSize of the exhaustively enumerated options.
MaxSize == 2
\* Largest overlapSize of the exhaustively enumerated options.
MaxOverlap == 2

\* ------------------------------------------------------------- characters
\* The characters \s matches (and String.prototype.trim removes).
Whitespace == {" ", "\n", "\t"}
\* The characters of the class [.!?] of sentenceEndings.
SentenceEndChars == {".", "!", "?"}
\* The characters the enumerated inputs are made of.
Alphabet == {"a", ".", " ", "\n"}

Min(S) == CHOOSE x \in S : \A y \in S : x <= y
Max(S) == CHOOSE x \in S : \A y \in S : x >= y

\* n copies of the character c.
Rep(c, n) == [i \in 1..n |-> c]

\* A trim that strips spaces only, leaving newlines and tabs in place.
trim_SpacesOnly(s) ==
    LET keep == {i \in 1..Len(s) : s[i] # " "}
    IN  IF keep = {} THEN <<>> ELSE SubSeq(s, Min(keep), Max(keep))

\* String.prototype.trim
trim(s) ==
    LET keep == {i \in 1..Len(s) : s[i] \notin Whitespace}
    IN  IF keep = {} THEN <<>> ELSE SubSeq(s, Min(keep), Max(keep))

\* String.prototype.split(pattern) for a pattern whose matches in s are the
\* maximal runs of the positions in seps: the pieces between the runs, the
\* empty pieces before a leading and after a trailing run included; the
\* empty string splits into one empty piece.
splitAt(s, seps) ==
    LET n == Len(s)
        isStart(i) == i \notin seps /\ (i = 1 \/ (i - 1) \in seps)
        starts == SelectSeq([i \in 1..n |-> i], isStart)
        endOf(i) == Min({j \in i..n : j = n \/ (j + 1) \in seps})
        leading == IF n = 0 \/ 1 \in seps THEN << <<>> >> ELSE <<>>
        trailing == IF n > 0 /\ n \in seps THEN << <<>> >> ELSE <<>>
    IN  leading
        \o [k \in 1..Len(starts) |-> SubSeq(s, starts[k], endOf(starts[k]))]
        \o trailing

\* String.prototype.split(/\s+/): the separators are the runs of whitespace.
splitWs(s) == splitAt(s, {i \in 1..Len(s) : s[i] \in Whitespace})

\* Array.prototype.join(sep): the parts with sep between every two of them,
\* put together half by half.
RECURSIVE join(_, _)
join(parts, sep) ==
    IF Len(parts) = 0 THEN <<>>
    ELSE IF Len(parts) = 1 THEN parts[1]
    ELSE LET half == Len(parts) \div 2
         IN  join(SubSeq(parts, 1, half), sep) \o sep
             \o join(SubSeq(parts, half + 1, Len(parts)), sep)

\* A character estimate that rounds down.
CeilDiv4_Floor(n) == n \div 4

\* Math.ceil(n / 4) for n >= 0
CeilDiv4(n) == (n + 3) \div 4

\* estimateTokenCount
estimateTokenCount(text) ==
    LET normalized == trim(text)
        charCount == Len(normalized)
        wordCount == Len(splitWs(normalized))
        charBasedEstimate == CeilDiv4(charCount)
        wordBasedEstimate == wordCount
    IN  IF charBasedEstimate >= wordBasedEstimate
        THEN charBasedEstimate ELSE wordBasedEstimate

\* exceedsTokenLimit
exceedsTokenLimit(text, limit) == estimateTokenCount(text) > limit

\* ------------------------------------------------------------ the chunker
\* A createChunk that trims the content it is given and keeps the offsets.
createChunk_TrimsContent(documentId, content, position, startChar, endChar) ==
    [documentId |-> documentId,
     content    |-> trim(content),
     position   |-> position,
     startChar  |-> startChar,
     endChar    |-> endChar,
     tokenCount |-> estimateTokenCount(content),
     via        |-> "paragraphs",
     paragraph  |-> 0]

\* A createChunk that files every chunk under one fixed document.
createChunk_FixedDocument(documentId, content, position, startChar, endChar) ==
    [documentId |-> "doc-1",
     content    |-> content,
     position   |-> position,
     startChar  |-> startChar,
     endChar    |-> endChar,
     tokenCount |-> estimateTokenCount(content),
     via        |-> "paragraphs",
     paragraph  |-> 0]

\* createChunk.  The id is drawn when chunk() has collected its chunks (see
\* assignIds).  via and paragraph are history fields, not fields of Chunk:
\* via names the code path that made the chunk ("paragraphs" for the
\* paragraph loop of chunk(), "sentences" and "characters" for the two
\* levels of splitLargeParagraph), paragraph is the 1-based index of the
\* oversized paragraph the chunk was split from (0 for "paragraphs").
createChunk(documentId, content, position, startChar, endChar) ==
    [documentId |-> documentId,
     content    |-> content,
     position   |-> position,
     startChar  |-> startChar,
     endChar    |-> endChar,
     tokenCount |-> estimateTokenCount(content),
     via        |-> "paragraphs",
     paragraph  |-> 0]

\* createChunk, line 324: id: randomUUID().  Every chunk chunk() has pushed
\* carries its own random id; the k-th id drawn in call number call is
\* <<call, k>>, so ids differ within a call and between calls.
assignIds(chunks, call) ==
    [k \in 1..Len(chunks) |->
        [f \in DOMAIN chunks[k] \cup {"id"} |->
            IF f = "id" THEN <<call, k>> ELSE chunks[k][f]]]

\* The history field via of the chunks a splitting level has made.
madeVia(chunks, level) ==
    [k \in 1..Len(chunks) |->
        IF chunks[k].via = "paragraphs" THEN [chunks[k] EXCEPT !.via = level]
        ELSE chunks[k]]

\* The history field paragraph of the chunks split from paragraph number n.
madeFrom(chunks, n) ==
    [k \in 1..Len(chunks) |-> [chunks[k] EXCEPT !.paragraph = n]]

\* String.prototype.split(/\n\n+/): the pieces between the maximal runs of
\* two or more newlines.
splitNewlines(s) ==
    splitAt(s, {i \in 1..Len(s) :
                   /\ s[i] = "\n"
                   /\ \/ (i > 1 /\ s[i - 1] = "\n")
                      \/ (i < Len(s) /\ s[i + 1] = "\n")})

\* A filter that also drops the paragraphs of a single character.
RECURSIVE trimAndDropEmpty_DropsSingle(_)
trimAndDropEmpty_DropsSingle(parts) ==
    IF Len(parts) = 0 THEN <<>>
    ELSE LET p == trim(parts[1])
         IN  IF Len(p) > 1 THEN <<p>> \o trimAndDropEmpty_DropsSingle(Tail(parts))
             ELSE trimAndDropEmpty_DropsSingle(Tail(parts))

\* .map(p => p.trim()).filter(p => p.length > 0)
RECURSIVE trimAndDropEmpty(_)
trimAndDropEmpty(parts) ==
    IF Len(parts) = 0 THEN <<>>
    ELSE LET p == trim(parts[1])
         IN  IF Len(p) > 0 THEN <<p>> \o trimAndDropEmpty(Tail(parts))
             ELSE trimAndDropEmpty(Tail(parts))

splitByParagraphs(content) ==
    trimAndDropEmpty(splitNewlines(content))

\* A sentence scan that forgets the text after the last sentence end.
RECURSIVE sentenceLoop_NoRemaining(_, _, _)
sentenceLoop_NoRemaining(text, lastIndex, sentences) ==
    LET ends == {j \in (lastIndex + 1)..(Len(text) - 1) :
                    text[j] \in SentenceEndChars /\ text[j + 1] \in Whitespace}
    IN  IF ends = {}
        THEN sentences
        ELSE LET matchEnd == Min(ends) + 1
                 sentence == trim(SubSeq(text, lastIndex + 1, matchEnd))
             IN  sentenceLoop_NoRemaining(text, matchEnd,
                     IF Len(sentence) > 0 THEN Append(sentences, sentence)
                     ELSE sentences)

\* The while loop of splitBySentences.  lastIndex is the 0-based scan
\* position of sentenceEndings; exec finds the leftmost match of
\* /[.!?]+[\s\n]/ at or after it, which ends at the first sentence-end
\* character that is followed by a whitespace character.
RECURSIVE sentenceLoop(_, _, _)
sentenceLoop(text, lastIndex, sentences) ==
    LET ends == {j \in (lastIndex + 1)..(Len(text) - 1) :
                    text[j] \in SentenceEndChars /\ text[j + 1] \in Whitespace}
    IN  IF ends = {}
        THEN LET remaining == trim(SubSeq(text, lastIndex + 1, Len(text)))
             IN  IF Len(remaining) > 0 THEN Append(sentences, remaining)
                 ELSE sentences
        ELSE LET matchEnd == Min(ends) + 1
                 sentence == trim(SubSeq(text, lastIndex + 1, matchEnd))
             IN  sentenceLoop(text, matchEnd,
                     IF Len(sentence) > 0 THEN Append(sentences, sentence)
                     ELSE sentences)

\* Line 210 sets sentenceEndings.lastIndex to 0 before the first exec,
\* whatever an earlier scan left there.
splitBySentences(text) ==
    LET sentences == sentenceLoop(text, 0, <<>>)
    IN  IF Len(sentences) > 0 THEN sentences ELSE <<text>>

\* A slice width that is never less than one character.
charsPerChunk_AtLeastOne(maxTokens) ==
    IF maxTokens * 4 > 0 THEN maxTokens * 4 ELSE 1

\* A slice width that divides by the characters-per-token ratio.
charsPerChunk_Divided(maxTokens) == maxTokens \div 4

\* splitByCharacters, line 240: const maxChars = maxTokens * 4
charsPerChunk(maxTokens) == maxTokens * 4

\* Whether for (let i = 0; i < length; i += maxChars) leaves the loop within
\* fuel more iterations.
RECURSIVE forLoopExits(_, _, _, _)
forLoopExits(i, length, maxChars, fuel) ==
    IF i >= length THEN TRUE
    ELSE IF fuel = 0 THEN FALSE
    ELSE forLoopExits(i + maxChars, length, maxChars, fuel - 1)

\* The for loop of splitByCharacters never ends.  A step of 1 or more leaves
\* the loop within Len(text) iterations; a loop still running after that
\* many has a step of 0 or less, and i never passes the end of the text.
splitByCharactersLoops(text, maxTokens) ==
    ~forLoopExits(0, Len(text), charsPerChunk(maxTokens), Len(text))

\* A character loop that does not advance currentChar: every slice is given
\* the offset of the first.
RECURSIVE splitByCharactersLoop_StaleChar(_, _, _, _, _, _, _)
splitByCharactersLoop_StaleChar(text, documentId, i, position, currentChar, maxChars, chunks) ==
    IF i >= Len(text) THEN chunks
    ELSE LET last == IF i + maxChars < Len(text) THEN i + maxChars ELSE Len(text)
             chunkText == SubSeq(text, i + 1, last)
         IN  splitByCharactersLoop_StaleChar(text, documentId, i + maxChars,
                 position + 1, currentChar, maxChars,
                 Append(chunks, createChunk(documentId, chunkText, position,
                                            currentChar, currentChar + Len(chunkText))))

\* The for loop of splitByCharacters, i the 0-based index into text.
RECURSIVE splitByCharactersLoop(_, _, _, _, _, _, _)
splitByCharactersLoop(text, documentId, i, position, currentChar, maxChars, chunks) ==
    IF i >= Len(text) THEN chunks
    ELSE LET last == IF i + maxChars < Len(text) THEN i + maxChars ELSE Len(text)
             chunkText == SubSeq(text, i + 1, last)
         IN  splitByCharactersLoop(text, documentId, i + maxChars, position + 1,
                 currentChar + Len(chunkText), maxChars,
                 Append(chunks, createChunk(documentId, chunkText, position,
                                            currentChar, currentChar + Len(chunkText))))

\* A character split that numbers its chunks from 0, not from startPosition.
splitByCharacters_PositionZero(text, documentId, startPosition, startChar, maxTokens) ==
    madeVia(splitByCharactersLoop(text, documentId, 0, 0, startChar,
                                  charsPerChunk(maxTokens), <<>>),
            "characters")

splitByCharacters(text, documentId, startPosition, startChar, maxTokens) ==
    madeVia(splitByCharactersLoop(text, documentId, 0, startPosition, startChar,
                                  charsPerChunk(maxTokens), <<>>),
            "characters")

\* Sentences appended to the accumulated chunk with nothing in between.
sentenceSeparator_None(currentChunk) == <<>>

\* splitLargeParagraph, line 140: (currentChunk ? ' ' : '')
sentenceSeparator(currentChunk) ==
    IF Len(currentChunk) > 0 THEN <<" ">> ELSE <<>>

\* One iteration of the sentence loop of splitLargeParagraph; st holds the
\* locals chunks, currentChunk, currentStartChar and position, and looping:
\* control went into a splitByCharacters loop that never ends.
sentenceStep(st, sentence, documentId, maxChunkSize) ==
    LET testChunk == st.currentChunk \o sentenceSeparator(st.currentChunk)
                     \o sentence
        testTokens == estimateTokenCount(testChunk)
    IN  IF testTokens <= maxChunkSize
        THEN [st EXCEPT !.currentChunk = testChunk]
        ELSE LET flush == Len(trim(st.currentChunk)) > 0
                 s1 == IF flush
                       THEN [st EXCEPT
                               !.chunks = Append(@, createChunk(documentId,
                                   trim(st.currentChunk), st.position,
                                   st.currentStartChar,
                                   st.currentStartChar + Len(st.currentChunk))),
                               !.position = @ + 1,
                               !.currentStartChar = @ + Len(st.currentChunk)]
                       ELSE st
             IN  IF estimateTokenCount(sentence) > maxChunkSize
                 THEN IF splitByCharactersLoops(sentence, maxChunkSize)
                      THEN [s1 EXCEPT !.looping = TRUE]
                      ELSE
                      LET charChunks == splitByCharacters(sentence, documentId,
                                 s1.position, s1.currentStartChar, maxChunkSize)
                      IN  [chunks           |-> s1.chunks \o charChunks,
                           position         |-> s1.position + Len(charChunks),
                           currentStartChar |-> s1.currentStartChar + Len(sentence),
                           currentChunk     |-> <<>>,
                           looping          |-> FALSE]
                 ELSE [s1 EXCEPT !.currentChunk = sentence]

RECURSIVE sentencePackLoop(_, _, _, _)
sentencePackLoop(st, sentences, documentId, maxChunkSize) ==
    IF Len(sentences) = 0 \/ st.looping THEN st
    ELSE sentencePackLoop(sentenceStep(st, sentences[1], documentId, maxChunkSize),
                          Tail(sentences), documentId, maxChunkSize)

\* A loop end that forgets to save the accumulated last chunk.
saveLastChunk_Dropped(st, documentId) == st.chunks

\* The flush of a non-empty accumulator after a loop ("Save last chunk").
saveLastChunk(st, documentId) ==
    IF Len(trim(st.currentChunk)) > 0
    THEN Append(st.chunks, createChunk(documentId, trim(st.currentChunk),
                    st.position, st.currentStartChar,
                    st.currentStartChar + Len(st.currentChunk)))
    ELSE st.chunks

\* splitLargeParagraph, lines 132-178: the locals after the sentence loop.
packSentences(paragraph, documentId, startPosition, startChar, options) ==
    sentencePackLoop([chunks |-> <<>>, currentChunk |-> <<>>,
                      currentStartChar |-> startChar,
                      position |-> startPosition, looping |-> FALSE],
                     splitBySentences(paragraph), documentId,
                     options.maxChunkSize)

\* splitLargeParagraph does not return.
splitLargeParagraphLoops(paragraph, documentId, startPosition, startChar, options) ==
    IF options.preserveSentences
    THEN packSentences(paragraph, documentId, startPosition, startChar,
                       options).looping
    ELSE splitByCharactersLoops(paragraph, options.maxChunkSize)

splitLargeParagraph(paragraph, documentId, startPosition, startChar, options) ==
    IF options.preserveSentences
    THEN madeVia(
             saveLastChunk(
                 packSentences(paragraph, documentId, startPosition, startChar,
                               options),
                 documentId),
             "sentences")
    ELSE splitByCharacters(paragraph, documentId, startPosition, startChar,
                           options.maxChunkSize)

\* A test that lets the accumulated chunk grow one unit past the budget.
paragraphFits_OneOver(testTokens, options) ==
    testTokens <= options.maxChunkSize + 1

\* A test that lets no paragraph join the chunk being accumulated.
paragraphFits_Never(testTokens, options) == FALSE

\* chunk(), line 71: testTokens <= options.maxChunkSize
paragraphFits(testTokens, options) == testTokens <= options.maxChunkSize

\* One iteration of the paragraph loop of chunk(); st holds the locals
\* chunks, currentChunk, currentStartChar and position, the loop index i, and
\* looping: control went into a splitLargeParagraph that does not return.
paragraphStep(st, paragraph, documentId, options) ==
    IF estimateTokenCount(paragraph) > options.maxChunkSize
    THEN LET flush == Len(trim(st.currentChunk)) > 0
             s1 == IF flush
                   THEN [st EXCEPT
                           !.chunks = Append(@, createChunk(documentId,
                               trim(st.currentChunk), st.position,
                               st.currentStartChar,
                               st.currentStartChar + Len(st.currentChunk))),
                           !.position = @ + 1,
                           !.currentChunk = <<>>]
                   ELSE st
             sentenceChunks == madeFrom(
                                   splitLargeParagraph(paragraph, documentId,
                                       s1.position, s1.currentStartChar, options),
                                   st.i + 1)
         IN  IF splitLargeParagraphLoops(paragraph, documentId, s1.position,
                                         s1.currentStartChar, options)
             THEN [s1 EXCEPT !.looping = TRUE]
             ELSE [s1 EXCEPT !.chunks = @ \o sentenceChunks,
                             !.position = @ + Len(sentenceChunks),
                             !.currentStartChar = @ + Len(paragraph)]
    ELSE LET testChunk == st.currentChunk
                          \o (IF Len(st.currentChunk) > 0 THEN <<"\n", "\n">> ELSE <<>>)
                          \o paragraph
             testTokens == estimateTokenCount(testChunk)
         IN  IF paragraphFits(testTokens, options)
             THEN [st EXCEPT !.currentChunk = testChunk]
             ELSE LET flush == Len(trim(st.currentChunk)) > 0
                  IN  [chunks   |-> IF flush
                                    THEN Append(st.chunks, createChunk(documentId,
                                             trim(st.currentChunk), st.position,
                                             st.currentStartChar,
                                             st.currentStartChar + Len(st.currentChunk)))
                                    ELSE st.chunks,
                       position |-> IF flush THEN st.position + 1 ELSE st.position,
                       currentStartChar |-> st.currentStartChar + Len(st.currentChunk),
                       currentChunk |-> paragraph,
                       i        |-> st.i,
                       looping  |-> FALSE]

RECURSIVE paragraphLoop(_, _, _, _)
paragraphLoop(st, paragraphs, documentId, options) ==
    IF Len(paragraphs) = 0 \/ st.looping THEN st
    ELSE paragraphLoop([paragraphStep(st, paragraphs[1], documentId, options)
                           EXCEPT !.i = @ + 1],
                       Tail(paragraphs), documentId, options)

\* chunk(), lines 27-89: the locals after the paragraph loop.
paragraphsPacked(text, documentId, options) ==
    paragraphLoop([chunks |-> <<>>, currentChunk |-> <<>>,
                   currentStartChar |-> 0, position |-> 0, i |-> 0,
                   looping |-> FALSE],
                  splitByParagraphs(text), documentId, options)

\* chunk() never gets out of its paragraph loop.
chunkLoops(text, documentId, options) ==
    paragraphsPacked(text, documentId, options).looping

\* splitBySentences is called: sentences are preserved and some paragraph
\* is oversized.
sentencesScanned(text, options) ==
    /\ options.preserveSentences
    /\ \E n \in 1..Len(splitByParagraphs(text)) :
          estimateTokenCount(splitByParagraphs(text)[n]) > options.maxChunkSize

\* chunk(), lines 27-100: the chunks before overlap is added.
packParagraphs(text, documentId, options) ==
    saveLastChunk(paragraphsPacked(text, documentId, options), documentId)

\* Array.prototype.slice(0, n) and slice(-n) for n >= 0 (slice(-0) is
\* slice(0), the whole array).
sliceFirst(tokens, n) ==
    SubSeq(tokens, 1, IF n < Len(tokens) THEN n ELSE Len(tokens))

sliceLast(tokens, n) ==
    IF n = 0 \/ n >= Len(tokens) THEN tokens
    ELSE SubSeq(tokens, Len(tokens) - n + 1, Len(tokens))

getOverlapText(text, overlapSize, fromStart) ==
    LET tokens == splitWs(text)
    IN  IF fromStart THEN join(sliceFirst(tokens, overlapSize), <<" ">>)
        ELSE join(sliceLast(tokens, overlapSize), <<" ">>)

\* The start offset moved back without the floor at 0.
shiftedStartChar_NoFloor(startChar, overlapText) ==
    startChar - Len(overlapText) - 1

\* addOverlap, line 275: Math.max(0, startChar - overlapText.length - 1)
shiftedStartChar(startChar, overlapText) ==
    LET shifted == startChar - Len(overlapText) - 1
    IN  IF shifted > 0 THEN shifted ELSE 0

\* An overlapped chunk that keeps the token count of the chunk it came from.
overlappedRecord_StaleTokenCount(chunk, content, startChar) ==
    [chunk EXCEPT !.content = trim(content),
                  !.startChar = startChar,
                  !.endChar = startChar + Len(content)]

\* addOverlap, lines 285-294: the chunk pushed for the untrimmed new content.
overlappedRecord(chunk, content, startChar) ==
    [chunk EXCEPT !.content = trim(content),
                  !.startChar = startChar,
                  !.endChar = startChar + Len(content),
                  !.tokenCount = estimateTokenCount(content)]

\* The body of the for loop of addOverlap for index i (1-based here).
overlappedChunk(chunks, i, overlapSize) ==
    LET chunk == chunks[i]
        prevText == getOverlapText(chunks[i - 1].content, overlapSize, FALSE)
        content1 == IF i > 1 THEN prevText \o <<" ">> \o chunk.content
                    ELSE chunk.content
        startChar == IF i > 1 THEN shiftedStartChar(chunk.startChar, prevText)
                     ELSE chunk.startChar
        content2 == IF i < Len(chunks)
                    THEN content1 \o <<" ">>
                         \o getOverlapText(chunks[i + 1].content, overlapSize, TRUE)
                    ELSE content1
    IN  overlappedRecord(chunk, content2, startChar)

\* An overlap loop that starts at the second chunk.
addOverlap_SkipFirst(chunks, overlapSize) ==
    [i \in 1..(Len(chunks) - 1) |-> overlappedChunk(chunks, i + 1, overlapSize)]

addOverlap(chunks, overlapSize) ==
    [i \in 1..Len(chunks) |-> overlappedChunk(chunks, i, overlapSize)]

\* ----------------------------------------------------------------- inputs
\* Every text of at most MaxLen characters over Alphabet.
ShortTexts == UNION {[1..n -> Alphabet] : n \in 0..MaxLen}

\* Longer documents, each built to drive one path of the chunker:
\*   "aaa  b"            a character slice that ends and one that starts in whitespace
\*   "aaaa    b"         a character slice made of whitespace only
\*   "a\n\nb. cc dd\n\ne" a flush, sentence packing and a character split interleaved
\*   "a. b. c"           three one-word sentences
\*   "a. b! c? d. e"     five sentences, several of which fit one chunk
SplitInWhitespaceText == Rep("a", 3) \o Rep(" ", 2) \o <<"b">>
WhitespaceSliceText == Rep("a", 4) \o Rep(" ", 4) \o <<"b">>
InterleavedText ==
    <<"a", "\n", "\n", "b", ".", " ", "c", "c", " ", "d", "d", "\n", "\n", "e">>
ThreeSentencesText == <<"a", ".", " ", "b", ".", " ", "c">>
FiveSentencesText ==
    <<"a", ".", " ", "b", "!", " ", "c", "?", " ", "d", ".", " ", "e">>

LongTexts ==
    {SplitInWhitespaceText, WhitespaceSliceText, InterleavedText,
     ThreeSentencesText, FiveSentencesText}

Texts == ShortTexts \cup LongTexts

DocumentIds == {"doc-1", "doc-2"}

\* The options a caller is meant to pass: maxChunkSize >= 1, overlapSize >= 0.
Options ==
    [maxChunkSize : 1..MaxSize, overlapSize : 0..MaxOverlap,
     preserveSentences : BOOLEAN]

\* chunk() validates nothing: a non-positive maxChunkSize and a negative
\* overlapSize are accepted too.
UncheckedOptions ==
    [maxChunkSize : (-1)..MaxSize, overlapSize : (-1)..MaxOverlap,
     preserveSentences : BOOLEAN]

\* Property 13 of the chunking tests: maxChunkSize drawn from 50..1000 (its
\* least value here), the default overlapSize of 50, preserveSentences true.
Property13MinSize == 50
DefaultOverlapSize == 50
Property13Options ==
    [maxChunkSize |-> Property13MinSize, overlapSize |-> DefaultOverlapSize,
     preserveSentences |-> TRUE]

\* n one-letter words separated by single spaces.
Words(n) == [i \in 1..(2 * n - 1) |-> IF i % 2 = 1 THEN "a" ELSE " "]

\* A 200-character text of the test's generator: two sentences of fifty
\* one-letter words, "a a ... a. a a ... a".
Property13Text == Words(50) \o <<".", " ">> \o Words(50)

\* ---------------------------------------------------------- state machine
VARIABLES
    pc,          \* "idle", "called", "packed", "looping", "done": where the
                 \* call stands
    content,     \* argument of chunk()
    documentId,  \* argument of chunk()
    options,     \* argument of chunk()
    chunks,      \* the local chunks of chunk(), before overlap is added
    result,      \* the sequence chunk() returned
    lastIndex,   \* sentenceEndings.lastIndex, the scan position the service
                 \* instance keeps in its sentence pattern between calls
    earlier,     \* history: one earlier call of this instance and what it
                 \* returned, and whether other calls were made since
    estimated,   \* the last call of the size estimator and what it returned
    ipc,         \* where ingest() stands: "idle", awaiting a call
                 \* ("processing", "embedding", "upserting", "storing",
                 \* "cleaning"), "returned" or "threw"
    ingests,     \* number of ingest() calls made
    request,     \* arguments of ingest(): input.type and chunkingOptions
    processedDoc, \* what processor.process returned
    ingestChunks, \* what chunkingService.chunk returned to ingest()
    embedded,    \* what embeddingService.embedBatch returned
    caught,      \* message of the error storeWithTransaction caught
    calls,       \* the calls this ingest() has made to the two stores
    outcome,     \* what ingest() returned or threw
    vectorStore, \* the records of the vector store
    documents,   \* ids of the document rows of the relational store
    chunkRows    \* the chunk rows of the relational store

chunkerVars == <<pc, content, documentId, options, chunks, result, lastIndex>>

ingestVars == <<ipc, ingests, request, processedDoc, ingestChunks, embedded,
                caught, calls, outcome, vectorStore, documents, chunkRows>>

\* What the chunker's steps leave alone.
outsideChunker == <<earlier, estimated, ingestVars>>

vars == <<chunkerVars, outsideChunker>>

NoOptions == [maxChunkSize |-> 1, overlapSize |-> 0, preserveSentences |-> FALSE]

\* No call is remembered; the estimator has not been called.
NoCall == [made |-> FALSE]

Init ==
    /\ pc = "idle"
    /\ content = <<>>
    /\ documentId = "doc-1"
    /\ options = NoOptions
    /\ chunks = <<>>
    /\ result = <<>>
    /\ lastIndex = 0
    /\ earlier = NoCall
    /\ estimated = NoCall
    /\ ipc = "idle"
    /\ ingests = 0
    /\ request = NoCall
    /\ processedDoc = NoCall
    /\ ingestChunks = <<>>
    /\ embedded = NoCall
    /\ caught = ""
    /\ calls = <<>>
    /\ outcome = NoCall
    /\ vectorStore = {}
    /\ documents = {}
    /\ chunkRows = {}

\* A chunks array that is a field of the service instance, never cleared.
newChunks_InstanceField == chunks

\* chunk(), line 20: const chunks: Chunk[] = []
newChunks == <<>>

\* A caller invokes chunk(content, documentId, options); nothing validates
\* the options.  A negative overlapSize is followed on blank content only,
\* where chunk() returns before it reads the options.  The documentId is
\* copied into the chunks and never read: the enumerated short texts are
\* chunked for the first document, the named long texts for every document.
Call ==
    /\ pc = "idle"
    /\ \E c \in Texts, d \in DocumentIds, o \in UncheckedOptions :
          /\ o.overlapSize >= 0 \/ Len(trim(c)) = 0
          /\ d = "doc-1" \/ c \in LongTexts
          /\ content' = c
          /\ documentId' = d
          /\ options' = o
    /\ chunks' = newChunks
    /\ result' = <<>>
    /\ pc' = "called"
    /\ UNCHANGED <<lastIndex, outsideChunker>>

\* The call Property 13 makes.
CallProperty13 ==
    /\ pc = "idle"
    /\ content' = Property13Text
    /\ \E d \in DocumentIds : documentId' = d
    /\ options' = Property13Options
    /\ chunks' = newChunks
    /\ result' = <<>>
    /\ pc' = "called"
    /\ UNCHANGED <<lastIndex, outsideChunker>>

\* chunk(), lines 22-24: blank content returns the empty array.
ReturnEmpty ==
    /\ pc = "called"
    /\ Len(content) = 0 \/ Len(trim(content)) = 0
    /\ result' = chunks
    /\ pc' = "done"
    /\ UNCHANGED <<content, documentId, options, chunks, lastIndex, outsideChunker>>

\* chunk(), lines 27-100: paragraphs are packed into chunks, pushed onto the
\* array of line 20.  When splitBySentences ran, its exec loop ended on a
\* failed match, which leaves lastIndex at 0.
Pack ==
    /\ pc = "called"
    /\ ~(Len(content) = 0 \/ Len(trim(content)) = 0)
    /\ LET packed == paragraphsPacked(content, documentId, options)
       IN  /\ ~packed.looping
           /\ chunks' = chunks \o assignIds(saveLastChunk(packed, documentId), 0)
    /\ lastIndex' = IF sentencesScanned(content, options) THEN 0 ELSE lastIndex
    /\ pc' = "packed"
    /\ UNCHANGED <<content, documentId, options, result, outsideChunker>>

\* chunk(), lines 33-65 with splitByCharacters, lines 244-254: control is in
\* a character loop that pushes chunks forever; the call never returns.
\* Line 244: i += maxChars passes text.length when maxChars > 0, so only a
\* step of 0 or less can keep the loop going.
Loop ==
    /\ pc = "called"
    /\ ~(Len(content) = 0 \/ Len(trim(content)) = 0)
    /\ charsPerChunk(options.maxChunkSize) <= 0
    /\ chunkLoops(content, documentId, options)
    /\ pc' = "looping"
    /\ UNCHANGED <<content, documentId, options, chunks, result, lastIndex,
                   outsideChunker>>

\* chunk(), lines 103-105: overlap is added and the new array returned.
ReturnOverlapped ==
    /\ pc = "packed"
    /\ options.overlapSize > 0 /\ Len(chunks) > 1
    /\ result' = addOverlap(chunks, options.overlapSize)
    /\ pc' = "done"
    /\ UNCHANGED <<content, documentId, options, chunks, lastIndex, outsideChunker>>

\* chunk(), line 107: the chunks are returned as they are.
ReturnChunks ==
    /\ pc = "packed"
    /\ ~(options.overlapSize > 0 /\ Len(chunks) > 1)
    /\ result' = chunks
    /\ pc' = "done"
    /\ UNCHANGED <<content, documentId, options, chunks, lastIndex, outsideChunker>>

\* The caller has taken the result; the service is ready for the next call.
Finish ==
    /\ pc = "done"
    /\ pc' = "idle"
    /\ content' = <<>>
    /\ documentId' = "doc-1"
    /\ options' = NoOptions
    /\ chunks' = <<>>
    /\ result' = <<>>
    /\ UNCHANGED <<lastIndex, outsideChunker>>

Next ==
    \/ Call
    \/ CallProperty13
    \/ ReturnEmpty
    \/ Pack
    \/ Loop
    \/ ReturnOverlapped
    \/ ReturnChunks
    \/ Finish

Spec == Init /\ [][Next]_vars

\* ------------------------------------------------------ the size estimator
\* The limits the estimator is asked about.
Limits == 0..(MaxSize + 1)

\* A caller invokes estimateTokenCount(text) and exceedsTokenLimit(text,
\* limit).
Estimate ==
    /\ ~estimated.made
    /\ \E t \in Texts, l \in Limits :
          estimated' = [made |-> TRUE, text |-> t, limit |-> l,
                        tokens |-> estimateTokenCount(t),
                        exceeds |-> exceedsTokenLimit(t, l)]
    /\ UNCHANGED <<chunkerVars, earlier, ingestVars>>

\* The caller has taken the two answers.
Answered ==
    /\ estimated.made
    /\ estimated' = NoCall
    /\ UNCHANGED <<chunkerVars, earlier, ingestVars>>

EstimatorNext ==
    \/ Estimate
    \/ Answered

EstimatorSpec == Init /\ [][EstimatorNext]_vars

\* ------------------------------------------- one instance, call after call
\* The texts of the calls that are repeated on one service instance: blank
\* content, and two texts whose chunking scans sentences.
StatefulTexts == {<<" ">>, ThreeSentencesText, InterleavedText}

\* A further call of chunk() on the same instance.
CallAgain ==
    /\ pc = "idle"
    /\ \E c \in StatefulTexts, d \in DocumentIds, o \in Options :
          /\ content' = c
          /\ documentId' = d
          /\ options' = o
    /\ chunks' = newChunks
    /\ result' = <<>>
    /\ pc' = "called"
    /\ UNCHANGED <<lastIndex, outsideChunker>>

\* The caller keeps the arguments and the result of a call, to compare a
\* later call with.  What the call left in the instance stays there.
Remember ==
    /\ pc = "done"
    /\ ~earlier.made
    /\ earlier' = [made |-> TRUE, content |-> content, documentId |-> documentId,
                   options |-> options, result |-> result, between |-> FALSE]
    /\ pc' = "idle"
    /\ content' = <<>>
    /\ documentId' = "doc-1"
    /\ options' = NoOptions
    /\ result' = <<>>
    /\ UNCHANGED <<chunks, lastIndex, estimated, ingestVars>>

\* The caller drops the result of a call; a remembered call now has another
\* call after it.  What the call left in the instance stays there.
Release ==
    /\ pc = "done"
    /\ earlier' = IF earlier.made THEN [earlier EXCEPT !.between = TRUE]
                  ELSE earlier
    /\ pc' = "idle"
    /\ content' = <<>>
    /\ documentId' = "doc-1"
    /\ options' = NoOptions
    /\ result' = <<>>
    /\ UNCHANGED <<chunks, lastIndex, estimated, ingestVars>>

StatefulNext ==
    \/ CallAgain
    \/ ReturnEmpty
    \/ Pack
    \/ ReturnOverlapped
    \/ ReturnChunks
    \/ Remember
    \/ Release

StatefulSpec == Init /\ [][StatefulNext]_vars

\* ------------------------------------------------------------- ingestion
\* Largest number of ingest() calls of a behaviour.
MaxIngests == 2

\* ingest(), line 392: maxChunkSize of the default options.
DefaultMaxChunkSize == 512

\* ingest(), lines 391-395
defaultOptions ==
    [maxChunkSize |-> DefaultMaxChunkSize, overlapSize |-> DefaultOverlapSize,
     preserveSentences |-> TRUE]

\* ingest(), line 396: { ...defaultOptions, ...chunkingOptions }
mergeOptions(defaults, partial) ==
    [f \in DOMAIN defaults |->
        IF f \in DOMAIN partial THEN partial[f] ELSE defaults[f]]

\* The chunkingOptions of the ingest() calls: none, a small maxChunkSize
\* alone, and all three options.
PartialOptions ==
    {[f \in {} |-> 0],
     [maxChunkSize |-> 1],
     [maxChunkSize |-> 1, overlapSize |-> 0, preserveSentences |-> FALSE]}

\* The input types with a registered processor, and those of the calls.
Processors == {"text"}
InputTypes == {"text", "video"}

\* The contents a processor returns: blank, one word, three sentences.
ProcessedTexts == {<<" ">>, <<"a">>, ThreeSentencesText}

\* The id (a random UUID) of the document of ingest() number n.
documentIdOf(n) == <<"document", n>>

\* DefaultChunkingService.chunk as ingest() calls it: the whole call, for
\* options whose maxChunkSize is at least 1; call numbers the ids drawn.
chunk(text, id, opts, call) ==
    IF Len(text) = 0 \/ Len(trim(text)) = 0 THEN <<>>
    ELSE LET packed == assignIds(packParagraphs(text, id, opts), call)
         IN  IF opts.overlapSize > 0 /\ Len(packed) > 1
             THEN addOverlap(packed, opts.overlapSize)
             ELSE packed

\* A count check that only looks for missing embeddings.
countMismatch_FewerOnly(vectors, chunkList) == Len(vectors) < Len(chunkList)

\* ingest(), line 411: embeddings.length !== chunks.length
countMismatch(vectors, chunkList) == Len(vectors) # Len(chunkList)

\* Vector records that all carry the first embedding.
vectorRecords_FirstVector(chunkList, vectors) ==
    [k \in 1..Len(chunkList) |-> [id |-> chunkList[k].id, vector |-> vectors[1]]]

\* storeWithTransaction, lines 439-450: chunks.map((chunk, index) => ...)
vectorRecords(chunkList, vectors) ==
    [k \in 1..Len(chunkList) |-> [id |-> chunkList[k].id, vector |-> vectors[k]]]

\* A clean-up that names the first chunk only.
chunkIds_FirstOnly(chunkList) == <<chunkList[1].id>>

\* storeWithTransaction, line 495: chunks.map((c) => c.id)
chunkIds(chunkList) == [k \in 1..Len(chunkList) |-> chunkList[k].id]

\* The elements of a sequence.
Range(seq) == {seq[k] : k \in 1..Len(seq)}

\* VectorStore.upsert: the records replace those of the same ids.
upsert(store, records) ==
    {r \in store : r.id \notin {q.id : q \in Range(records)}} \cup Range(records)

\* VectorStore.delete: the records of the ids are removed.
delete(store, ids) == {r \in store : r.id \notin Range(ids)}

\* storeWithTransaction, lines 477-490: the chunk rows of the transaction.
rowsOf(chunkList) ==
    {[id |-> chunkList[k].id, documentId |-> chunkList[k].documentId,
      position |-> chunkList[k].position, vectorId |-> chunkList[k].id] :
        k \in 1..Len(chunkList)}

\* ingest() throws: message is the error's message.
threw(message) == [made |-> TRUE, kind |-> "threw", message |-> message]

\* storeWithTransaction, lines 502-505: the message of the error thrown.
storeFailure(message) == <<"Failed to store document: ", message>>

outsideIngestion == <<chunkerVars, earlier, estimated>>

\* ingest(input, chunkingOptions) with a registered processor, up to the
\* await of processor.process.
Ingest ==
    /\ ipc = "idle" /\ ingests < MaxIngests
    /\ \E partial \in PartialOptions :
          request' = [made |-> TRUE, type |-> "text", chunkingOptions |-> partial]
    /\ ingests' = ingests + 1
    /\ processedDoc' = NoCall
    /\ ingestChunks' = <<>>
    /\ embedded' = NoCall
    /\ caught' = ""
    /\ calls' = <<>>
    /\ outcome' = NoCall
    /\ ipc' = "processing"
    /\ UNCHANGED <<vectorStore, documents, chunkRows, outsideIngestion>>

\* ingest(), lines 382-385: no processor for input.type.
IngestUnknownType ==
    /\ ipc = "idle" /\ ingests < MaxIngests
    /\ \E type \in InputTypes \ Processors, partial \in PartialOptions :
          request' = [made |-> TRUE, type |-> type, chunkingOptions |-> partial]
    /\ ingests' = ingests + 1
    /\ processedDoc' = NoCall
    /\ ingestChunks' = <<>>
    /\ embedded' = NoCall
    /\ caught' = ""
    /\ calls' = <<>>
    /\ outcome' = threw("No processor found for document type")
    /\ ipc' = "threw"
    /\ UNCHANGED <<vectorStore, documents, chunkRows, outsideIngestion>>

\* processor.process rejects: the error leaves ingest().
ProcessFails ==
    /\ ipc = "processing"
    /\ outcome' = threw("processor error")
    /\ ipc' = "threw"
    /\ UNCHANGED <<ingests, request, processedDoc, ingestChunks, embedded,
                   caught, calls, vectorStore, documents, chunkRows,
                   outsideIngestion>>

\* processor.process returns; ingest(), lines 391-409: the document is
\* chunked and embedBatch is called with the chunk contents.
ProcessReturns ==
    /\ ipc = "processing"
    /\ \E text \in ProcessedTexts :
          LET doc == [made |-> TRUE, id |-> documentIdOf(ingests), content |-> text]
              made == chunk(text, doc.id,
                            mergeOptions(defaultOptions, request.chunkingOptions),
                            ingests)
          IN  /\ Len(made) > 0
              /\ processedDoc' = doc
              /\ ingestChunks' = made
    /\ ipc' = "embedding"
    /\ UNCHANGED <<ingests, request, embedded, caught, calls, outcome,
                   vectorStore, documents, chunkRows, outsideIngestion>>

\* processor.process returns; ingest(), lines 403-405: no chunks.
ProcessReturnsNoChunks ==
    /\ ipc = "processing"
    /\ \E text \in ProcessedTexts :
          LET doc == [made |-> TRUE, id |-> documentIdOf(ingests), content |-> text]
              made == chunk(text, doc.id,
                            mergeOptions(defaultOptions, request.chunkingOptions),
                            ingests)
          IN  /\ Len(made) = 0
              /\ processedDoc' = doc
              /\ ingestChunks' = made
    /\ outcome' = threw("Document chunking produced no chunks")
    /\ ipc' = "threw"
    /\ UNCHANGED <<ingests, request, embedded, caught, calls,
                   vectorStore, documents, chunkRows, outsideIngestion>>

\* embedBatch rejects: the error leaves ingest().
EmbedFails ==
    /\ ipc = "embedding"
    /\ outcome' = threw("Failed to generate batch embeddings")
    /\ ipc' = "threw"
    /\ UNCHANGED <<ingests, request, processedDoc, ingestChunks, embedded,
                   caught, calls, vectorStore, documents, chunkRows,
                   outsideIngestion>>

\* The vectors an embedding service returns for n texts: the j-th stands for
\* the embedding at index j; the interface does not fix how many come back.
Embeddings(n) == {[j \in 1..m |-> <<"embedding", j>>] : m \in (n - 1)..(n + 1)}

\* embedBatch returns; ingest(), lines 411-415: the count is wrong.
EmbedReturnsMismatch ==
    /\ ipc = "embedding"
    /\ \E vectors \in Embeddings(Len(ingestChunks)) :
          /\ countMismatch(vectors, ingestChunks)
          /\ embedded' = [made |-> TRUE, vectors |-> vectors]
    /\ outcome' = threw("Embedding count mismatch")
    /\ ipc' = "threw"
    /\ UNCHANGED <<ingests, request, processedDoc, ingestChunks, caught, calls,
                   vectorStore, documents, chunkRows, outsideIngestion>>

\* embedBatch returns; ingest(), line 418, storeWithTransaction, lines
\* 439-453: the vector records are built and vectorStore.upsert is called.
EmbedReturns ==
    /\ ipc = "embedding"
    /\ \E vectors \in Embeddings(Len(ingestChunks)) :
          /\ ~countMismatch(vectors, ingestChunks)
          /\ embedded' = [made |-> TRUE, vectors |-> vectors]
          /\ calls' = Append(calls, [op |-> "upsert",
                                     records |-> vectorRecords(ingestChunks, vectors)])
    /\ ipc' = "upserting"
    /\ UNCHANGED <<ingests, request, processedDoc, ingestChunks, caught, outcome,
                   vectorStore, documents, chunkRows, outsideIngestion>>

\* vectorStore.upsert rejects, having stored nothing; storeWithTransaction,
\* lines 492-496: the error is caught and vectorStore.delete is called.
UpsertFails ==
    /\ ipc = "upserting"
    /\ caught' = "Failed to upsert vectors"
    /\ calls' = Append(calls, [op |-> "delete", ids |-> chunkIds(ingestChunks)])
    /\ ipc' = "cleaning"
    /\ UNCHANGED <<ingests, request, processedDoc, ingestChunks, embedded,
                   outcome, vectorStore, documents, chunkRows, outsideIngestion>>

\* vectorStore.upsert returns; storeWithTransaction, line 456:
\* prisma.$transaction is called.
UpsertReturns ==
    /\ ipc = "upserting"
    /\ vectorStore' = upsert(vectorStore, calls[Len(calls)].records)
    /\ calls' = Append(calls, [op |-> "transaction"])
    /\ ipc' = "storing"
    /\ UNCHANGED <<ingests, request, processedDoc, ingestChunks, embedded,
                   caught, outcome, documents, chunkRows, outsideIngestion>>

\* prisma.$transaction rejects and has rolled back; storeWithTransaction,
\* lines 492-496: the error is caught and vectorStore.delete is called.
TransactionFails ==
    /\ ipc = "storing"
    /\ caught' = "transaction error"
    /\ calls' = Append(calls, [op |-> "delete", ids |-> chunkIds(ingestChunks)])
    /\ ipc' = "cleaning"
    /\ UNCHANGED <<ingests, request, processedDoc, ingestChunks, embedded,
                   outcome, vectorStore, documents, chunkRows, outsideIngestion>>

\* prisma.$transaction commits the document row and the chunk rows;
\* ingest(), lines 420-424: the result is returned.
TransactionCommits ==
    /\ ipc = "storing"
    /\ documents' = documents \cup {processedDoc.id}
    /\ chunkRows' = chunkRows \cup rowsOf(ingestChunks)
    /\ outcome' = [made |-> TRUE, kind |-> "returned",
                   documentId |-> processedDoc.id,
                   chunksCreated |-> Len(ingestChunks),
                   embeddingsGenerated |-> Len(embedded.vectors)]
    /\ ipc' = "returned"
    /\ UNCHANGED <<ingests, request, processedDoc, ingestChunks, embedded,
                   caught, calls, vectorStore, outsideIngestion>>

\* vectorStore.delete returns; storeWithTransaction, lines 502-505: the
\* caught error is thrown again under a new message.
DeleteReturns ==
    /\ ipc = "cleaning"
    /\ vectorStore' = delete(vectorStore, calls[Len(calls)].ids)
    /\ outcome' = threw(storeFailure(caught))
    /\ ipc' = "threw"
    /\ UNCHANGED <<ingests, request, processedDoc, ingestChunks, embedded,
                   caught, calls, documents, chunkRows, outsideIngestion>>

\* vectorStore.delete rejects, having removed nothing; storeWithTransaction,
\* lines 497-505: that error is logged, the caught one thrown again.
DeleteFails ==
    /\ ipc = "cleaning"
    /\ outcome' = threw(storeFailure(caught))
    /\ ipc' = "threw"
    /\ UNCHANGED <<ingests, request, processedDoc, ingestChunks, embedded,
                   caught, calls, vectorStore, documents, chunkRows,
                   outsideIngestion>>

\* The caller has the result or the error; the service awaits the next call.
IngestDone ==
    /\ ipc \in {"returned", "threw"}
    /\ ipc' = "idle"
    /\ UNCHANGED <<ingests, request, processedDoc, ingestChunks, embedded,
                   caught, calls, outcome, vectorStore, documents, chunkRows,
                   outsideIngestion>>

IngestNext ==
    \/ Ingest
    \/ IngestUnknownType
    \/ ProcessFails
    \/ ProcessReturns
    \/ ProcessReturnsNoChunks
    \/ EmbedFails
    \/ EmbedReturnsMismatch
    \/ EmbedReturns
    \/ UpsertFails
    \/ UpsertReturns
    \/ TransactionFails
    \/ TransactionCommits
    \/ DeleteReturns
    \/ DeleteFails
    \/ IngestDone

IngestSpec == Init /\ [][IngestNext]_vars

TypeOK ==
    /\ pc \in {"idle", "called", "packed", "looping", "done"}
    /\ documentId \in DocumentIds
    /\ options \in UncheckedOptions \cup {Property13Options}
    /\ pc = "packed" => options.maxChunkSize >= 1 /\ options.overlapSize >= 0

\* ----------------------------------------------------------------- claims
\* Every character of s is whitespace (the empty text included).
IsBlank(s) == \A i \in 1..Len(s) : s[i] \in Whitespace

\* s has no leading and no trailing whitespace character.
IsTrimmed(s) ==
    Len(s) = 0 \/ (s[1] \notin Whitespace /\ s[Len(s)] \notin Whitespace)

\* The non-empty whitespace-delimited words of s.
WordsOf(s) == {w \in {splitWs(s)[i] : i \in 1..Len(splitWs(s))} : Len(w) > 0}

\* C1: every chunk produced before overlap is added has an estimate of at
\* most maxChunkSize, for every text, every maxChunkSize >= 1 and both
\* values of preserveSentences.
C1_SizeBoundBeforeOverlap ==
    pc \in {"packed", "done"} =>
        \A i \in 1..Len(chunks) :
            estimateTokenCount(chunks[i].content) <= options.maxChunkSize

\* C2: with maxChunkSize in 50..1000, overlapSize = 50 and
\* preserveSentences = true, every returned chunk (overlap added) has an
\* estimate of at most maxChunkSize.
C2_SizeBoundAfterOverlap ==
    (/\ pc = "done"
     /\ options.maxChunkSize \in 50..1000
     /\ options.overlapSize = 50
     /\ options.preserveSentences) =>
        \A i \in 1..Len(result) :
            estimateTokenCount(result[i].content) <= options.maxChunkSize

\* C3: for non-blank content no returned chunk is empty or made of
\* whitespace only.
C3_NonEmptyContent ==
    (pc = "done" /\ ~IsBlank(content)) =>
        \A i \in 1..Len(result) : ~IsBlank(result[i].content)

\* C4: the content of every returned chunk has no leading and no trailing
\* whitespace character.
C4_ContentTrimmed ==
    pc = "done" => \A i \in 1..Len(result) : IsTrimmed(result[i].content)

\* C5: the positions of the returned chunks are 0, 1, ..., n-1 in the order
\* returned.
C5_DensePositions ==
    pc = "done" => \A i \in 1..Len(result) : result[i].position = i - 1

\* A call with overlap whose result interleaves a paragraph flush, a
\* sentence flush, a character split and a final flush.
C5_Witness ==
    /\ pc = "done"
    /\ content = InterleavedText
    /\ options.maxChunkSize = 1 /\ options.preserveSentences
    /\ options.overlapSize > 0
    /\ Len(result) = 5

\* C6: every returned chunk has startChar >= 0 and endChar > startChar.
C6_OffsetSanity ==
    pc = "done" =>
        \A i \in 1..Len(result) :
            result[i].startChar >= 0 /\ result[i].endChar > result[i].startChar

\* Overlap was added and moved a chunk's start back beyond offset 0.
C6_Witness ==
    /\ pc = "done"
    /\ options.overlapSize > 0 /\ Len(result) > 1
    /\ \E i \in 2..Len(result) :
          /\ chunks[i].startChar
                 - Len(getOverlapText(chunks[i - 1].content, options.overlapSize, FALSE))
                 - 1 < 0
          /\ result[i].startChar = 0

\* C7: tokenCount of every returned chunk is the estimate of its returned
\* content, and is positive.
C7_TokenCountFresh ==
    pc = "done" =>
        \A i \in 1..Len(result) :
            /\ result[i].tokenCount = estimateTokenCount(result[i].content)
            /\ result[i].tokenCount > 0

\* Overlap was added and changed a chunk's token count.
C7_Witness ==
    /\ pc = "done"
    /\ options.overlapSize > 0 /\ Len(result) > 1
    /\ \E i \in 1..Len(result) : result[i].tokenCount # chunks[i].tokenCount

\* C8: chunk() on empty or whitespace-only content returns the empty
\* sequence, whatever the documentId and the options.
C8_EmptyInput ==
    (pc = "done" /\ IsBlank(content)) => result = <<>>

\* A call on whitespace-only content that holds a newline, made with a
\* non-positive maxChunkSize, has returned.
C8_Witness ==
    /\ pc = "done"
    /\ Len(content) > 1 /\ IsBlank(content)
    /\ \E i \in 1..Len(content) : content[i] = "\n"
    /\ options.maxChunkSize <= 0 /\ options.overlapSize > 0
    /\ result = <<>>

\* C9: when overlapSize > 0 and two or more chunks are returned, every
\* adjacent pair of returned chunks has a non-empty word in common.
C9_OverlapPresence ==
    (pc = "done" /\ options.overlapSize > 0 /\ Len(result) >= 2) =>
        \A i \in 1..(Len(result) - 1) :
            WordsOf(result[i].content) \cap WordsOf(result[i + 1].content) # {}

\* The trimmed content is one paragraph: it holds no two adjacent newlines.
IsSingleParagraph(s) ==
    /\ ~IsBlank(s)
    /\ \A j \in 1..(Len(trim(s)) - 1) :
          ~(trim(s)[j] = "\n" /\ trim(s)[j + 1] = "\n")

\* C10: content of one paragraph whose estimate is at most maxChunkSize is
\* returned as exactly one chunk, at position 0, holding the trimmed
\* content, for every overlapSize and both preserveSentences values.
C10_SmallParagraphWhole ==
    (/\ pc = "done"
     /\ IsSingleParagraph(content)
     /\ estimateTokenCount(content) <= options.maxChunkSize) =>
        /\ Len(result) = 1
        /\ result[1].position = 0
        /\ result[1].content = trim(content)

\* A small paragraph with a line break inside and whitespace around it was
\* chunked with overlap requested.
C10_Witness ==
    /\ pc = "done"
    /\ IsSingleParagraph(content)
    /\ estimateTokenCount(content) <= options.maxChunkSize
    /\ Len(trim(content)) < Len(content)
    /\ \E j \in 1..Len(trim(content)) : trim(content)[j] = "\n"
    /\ options.overlapSize > 0
    /\ Len(result) = 1

\* The chunks of the sequence cs that were split from paragraph number n.
ChunksFrom(cs, n) ==
    LET fromN(c) == c.paragraph = n
    IN  SelectSeq(cs, fromN)

\* C11: with preserveSentences false and overlapSize 0, every paragraph whose
\* estimate exceeds maxChunkSize is returned as its consecutive slices of
\* 4 * maxChunkSize characters (only the last may be shorter), one chunk per
\* slice, at strictly increasing positions, each chunk starting at the offset
\* where the chunk of the previous slice ends.
C11_CharacterFallback ==
    (pc = "done" /\ ~options.preserveSentences /\ options.overlapSize = 0) =>
        LET paragraphs == splitByParagraphs(content)
            width == 4 * options.maxChunkSize
        IN  \A n \in 1..Len(paragraphs) :
                estimateTokenCount(paragraphs[n]) > options.maxChunkSize =>
                    LET slices == ChunksFrom(result, n)
                        len == Len(paragraphs[n])
                    IN  /\ Len(slices) = (len + width - 1) \div width
                        /\ \A k \in 1..Len(slices) :
                              /\ slices[k].content =
                                     SubSeq(paragraphs[n], (k - 1) * width + 1,
                                            Min({k * width, len}))
                              /\ Len(slices[k].content) <= width
                              /\ k < Len(slices) =>
                                     Len(slices[k].content) = width
                        /\ \A k \in 1..(Len(slices) - 1) :
                              /\ slices[k + 1].position > slices[k].position
                              /\ slices[k + 1].startChar = slices[k].endChar

\* A later paragraph of a document was oversized and came back as two or
\* more character slices, after the chunk of the paragraph before it.
C11_Witness ==
    /\ pc = "done" /\ ~options.preserveSentences /\ options.overlapSize = 0
    /\ \E n \in 2..Len(splitByParagraphs(content)) :
          /\ estimateTokenCount(splitByParagraphs(content)[n]) > options.maxChunkSize
          /\ Len(ChunksFrom(result, n)) >= 2
          /\ ChunksFrom(result, n)[1].position > 0

\* C13: overlap neither reorders nor removes chunks.  A result returned with
\* overlapSize > 0 has as many chunks as the same content, maxChunkSize and
\* preserveSentences yield with overlapSize 0, and the chunk at each index
\* keeps its position, its documentId and the id it had before overlap was
\* added.
C13_OverlapKeepsChunks ==
    (pc = "done" /\ options.overlapSize > 0) =>
        LET plain == packParagraphs(content, documentId,
                                    [options EXCEPT !.overlapSize = 0])
        IN  /\ Len(result) = Len(plain)
            /\ Len(result) = Len(chunks)
            /\ \A i \in 1..Len(result) :
                  /\ result[i].position = plain[i].position
                  /\ result[i].documentId = plain[i].documentId
                  /\ result[i].id = chunks[i].id

\* Overlap rewrote the content of three or more chunks.
C13_Witness ==
    /\ pc = "done" /\ options.overlapSize > 0
    /\ Len(result) >= 3
    /\ \A i \in 1..Len(result) : result[i].content # chunks[i].content

\* C14: every returned chunk carries the documentId the call was given,
\* whichever path made the chunk.
C14_DocumentIdLinkage ==
    pc = "done" => \A i \in 1..Len(result) : result[i].documentId = documentId

\* A call for the second document returned chunks of all three paths, with
\* overlap added.
C14_Witness ==
    /\ pc = "done" /\ documentId = "doc-2" /\ options.overlapSize > 0
    /\ \A level \in {"paragraphs", "sentences", "characters"} :
          \E i \in 1..Len(result) : result[i].via = level

\* C15: a call made with maxChunkSize >= 1 and overlapSize >= 0 is never in
\* a loop that does not end, and once made it can take its next step: blank
\* content returns at once, any other content gets out of the paragraph
\* loop (from where the return with or without overlap always follows).
C15_CallCompletes ==
    (options.maxChunkSize >= 1 /\ options.overlapSize >= 0) =>
        /\ pc # "looping"
        /\ pc = "called" =>
              \/ \A i \in 1..Len(content) : content[i] \in Whitespace
              \/ ~chunkLoops(content, documentId, options)

\* A call with maxChunkSize >= 1 ran the character loop, at both levels of
\* splitLargeParagraph or with overlap added afterwards, and returned.
C15_Witness ==
    /\ pc = "done"
    /\ options.maxChunkSize >= 1 /\ options.overlapSize > 0
    /\ options.preserveSentences
    /\ \E i \in 1..Len(result) : result[i].via = "characters"
    /\ \E i \in 1..Len(result) : result[i].via = "sentences"

TrimmedLength(s) ==
    LET solid == {i \in 1..Len(s) : s[i] \notin Whitespace}
    IN  IF solid = {} THEN 0 ELSE Max(solid) - Min(solid) + 1

\* The number of whitespace-delimited tokens of s without the whitespace
\* around it: its maximal runs of non-whitespace characters, and 1 for a
\* text that has none.
TokensOf(s) ==
    LET starts == {i \in 1..Len(s) :
                     s[i] \notin Whitespace /\ (i = 1 \/ s[i - 1] \in Whitespace)}
    IN  IF starts = {} THEN 1 ELSE Cardinality(starts)

\* The least integer that is at least n / 4.
QuarterRoundedUp(n) == CHOOSE k \in 0..n : 4 * k >= n /\ 4 * (k - 1) < n

\* C16: the estimate of a text is the larger of a quarter of its trimmed
\* length, rounded up, and its number of whitespace-delimited tokens, where
\* an empty or all-whitespace text has one token; so it is at least 1; and
\* the text exceeds a limit exactly when its estimate is greater.
C16_SizeEstimator ==
    estimated.made =>
        LET byChars == QuarterRoundedUp(TrimmedLength(estimated.text))
            byWords == TokensOf(estimated.text)
        IN  /\ estimated.tokens = IF byChars >= byWords THEN byChars ELSE byWords
            /\ estimated.tokens >= 1
            /\ estimated.exceeds <=> estimated.tokens > estimated.limit

\* The estimator was asked about a text of two words with a run of
\* whitespace between them whose character estimate is the larger one, and
\* about a limit that estimate exceeds.
C16_Witness ==
    /\ estimated.made
    /\ TokensOf(estimated.text) = 2
    /\ QuarterRoundedUp(TrimmedLength(estimated.text)) = 3
    /\ estimated.tokens = 3
    /\ estimated.limit = 2
    /\ estimated.exceeds

\* The whitespace-delimited words of s, in order.
WordSeq(s) ==
    LET starts == {i \in 1..Len(s) :
                     s[i] \notin Whitespace /\ (i = 1 \/ s[i - 1] \in Whitespace)}
        start(n) == CHOOSE i \in starts : Cardinality({j \in starts : j < i}) = n - 1
        end(i) == Min({j \in i..Len(s) : j = Len(s) \/ s[j + 1] \in Whitespace})
    IN  [n \in 1..Cardinality(starts) |-> SubSeq(s, start(n), end(start(n)))]

\* The first and the last k words of s (all of them when s has fewer),
\* joined by single spaces.
FirstWords(s, k) ==
    join(SubSeq(WordSeq(s), 1, Min({k, Len(WordSeq(s))})), <<" ">>)

LastWords(s, k) ==
    join(SubSeq(WordSeq(s), Max({1, Len(WordSeq(s)) - k + 1}), Len(WordSeq(s))),
         <<" ">>)

\* C20: with overlapSize k > 0 and two or more chunks before overlap, the
\* returned content of chunk i is trim(P + c_i + S): P is the last k words
\* of the pre-overlap content of chunk i-1 and one space (nothing for the
\* first chunk), S is one space and the first k words of the pre-overlap
\* content of chunk i+1 (nothing for the last chunk).
C20_OverlapComposition ==
    (pc = "done" /\ options.overlapSize > 0 /\ Len(chunks) >= 2) =>
        \A i \in 1..Len(chunks) :
            LET k == options.overlapSize
                P == IF i > 1
                     THEN LastWords(chunks[i - 1].content, k) \o <<" ">>
                     ELSE <<>>
                S == IF i < Len(chunks)
                     THEN <<" ">> \o FirstWords(chunks[i + 1].content, k)
                     ELSE <<>>
            IN  result[i].content = trim(P \o chunks[i].content \o S)

\* Neither store holds anything of the document of the running ingest().
NothingStored ==
    /\ \A r \in vectorStore : r.id \notin {ingestChunks[k].id : k \in 1..Len(ingestChunks)}
    /\ processedDoc.id \notin documents
    /\ \A row \in chunkRows : row.documentId # processedDoc.id

\* C17: once embedBatch has returned a number of vectors other than the
\* number of chunks, ingest() has thrown 'Embedding count mismatch' and has
\* made no call to either store; neither store holds anything of the
\* document.
C17_CountMismatchIsHardError ==
    (/\ ipc # "idle" /\ embedded.made
     /\ Len(embedded.vectors) # Len(ingestChunks)) =>
        /\ ipc = "threw"
        /\ outcome.kind = "threw"
        /\ outcome.message = "Embedding count mismatch"
        /\ calls = <<>>
        /\ NothingStored

\* The second ingest() got one vector more than its three chunks, after a
\* first ingest() that stored its document.
C17_Witness ==
    /\ ipc = "threw" /\ embedded.made
    /\ Len(ingestChunks) = 3
    /\ Len(embedded.vectors) = 4
    /\ ingests = 2
    /\ documents # {} /\ vectorStore # {}

\* C18: once the upsert has succeeded and the transaction has failed, the
\* next call of ingest() is vectorStore.delete with exactly the ids of all
\* chunks of the document, made before it throws 'Failed to store
\* document: ...'; the relational store holds no row of the document.
C18_CompensatingDeletion ==
    (/\ ipc \in {"cleaning", "threw"}
     /\ Len(calls) >= 2 /\ calls[1].op = "upsert" /\ calls[2].op = "transaction") =>
        /\ Len(calls) = 3
        /\ calls[3].op = "delete"
        /\ Len(calls[3].ids) = Len(ingestChunks)
        /\ \A k \in 1..Len(ingestChunks) : calls[3].ids[k] = ingestChunks[k].id
        /\ processedDoc.id \notin documents
        /\ \A row \in chunkRows : row.documentId # processedDoc.id
        /\ ipc = "threw" =>
              /\ outcome.kind = "threw"
              /\ outcome.message[1] = "Failed to store document: "

\* The transaction of a document of three chunks failed after its upsert,
\* and ingest() has thrown.
C18_Witness ==
    /\ ipc = "threw"
    /\ Len(calls) = 3 /\ calls[2].op = "transaction" /\ calls[3].op = "delete"
    /\ Len(ingestChunks) = 3
    /\ outcome.message = <<"Failed to store document: ", "transaction error">>

\* C19: when ingest() has returned, chunksCreated and embeddingsGenerated
\* both are the number of chunks the chunker returned, which is at least 1;
\* the document row and exactly that many chunk rows of the returned
\* documentId are stored; and the upsert was given one record per chunk,
\* with the chunk's id and the embedding at the chunk's index, which the
\* vector store holds.
C19_IngestionCompleteness ==
    ipc = "returned" =>
        LET n == Len(ingestChunks)
        IN  /\ outcome.kind = "returned"
            /\ n >= 1
            /\ outcome.chunksCreated = n
            /\ outcome.embeddingsGenerated = n
            /\ outcome.documentId = processedDoc.id
            /\ outcome.documentId \in documents
            /\ Cardinality({row \in chunkRows :
                               row.documentId = outcome.documentId}) = n
            /\ \A k \in 1..n :
                  \E row \in chunkRows :
                      /\ row.id = ingestChunks[k].id
                      /\ row.documentId = outcome.documentId
            /\ calls[1].op = "upsert"
            /\ Len(calls[1].records) = n
            /\ \A k \in 1..n :
                  /\ calls[1].records[k].id = ingestChunks[k].id
                  /\ calls[1].records[k].vector = embedded.vectors[k]
                  /\ calls[1].records[k] \in vectorStore

\* The second ingest() returned for a document of three chunks, after a
\* first one that had stored a document too.
C19_Witness ==
    /\ ipc = "returned"
    /\ ingests = 2
    /\ Len(ingestChunks) = 3
    /\ Cardinality(documents) = 2
    /\ outcome.chunksCreated = 3

\* ------------------------------------------------------------ overlap offsets
\* The words addOverlap puts in front of chunk i (1-based, i > 1): the last
\* overlapSize words of the chunk before it, joined by single spaces.
PrependedText(i) ==
    getOverlapText(chunks[i - 1].content, options.overlapSize, FALSE)

\* The start offsets of the returned chunks: the first is kept, every other
\* one is moved back by the prepended text and one space, not below 0.
StartCharsMovedBack ==
    \A i \in 1..Len(result) :
        result[i].startChar =
            IF i = 1 THEN chunks[1].startChar
            ELSE Max({0, chunks[i].startChar - (Len(PrependedText(i)) + 1)})

\* C21: after overlap is added, chunk 0 keeps its startChar, every later chunk
\* has startChar = max(0, old startChar - (length of the prepended text + 1)),
\* and every chunk has endChar = startChar + length of its returned content.
C21_OverlapOffsets ==
    (pc = "done" /\ options.overlapSize > 0 /\ Len(chunks) > 1) =>
        /\ StartCharsMovedBack
        /\ \A i \in 1..Len(result) :
              result[i].endChar = result[i].startChar + Len(result[i].content)

\* The start offsets alone follow the rule of C21.
C21_StartChars ==
    (pc = "done" /\ options.overlapSize > 0 /\ Len(chunks) > 1) =>
        StartCharsMovedBack

\* endChar is startChar + the length of the new content before it is trimmed.
C21_EndCharUntrimmed ==
    (pc = "done" /\ options.overlapSize > 0 /\ Len(chunks) > 1) =>
        \A i \in 1..Len(result) :
            result[i].endChar - result[i].startChar >= Len(result[i].content)

\* Where every chunk packed before overlap is trimmed, endChar is startChar +
\* the length of the returned content.
C21_EndCharOfTrimmed ==
    (/\ pc = "done" /\ options.overlapSize > 0 /\ Len(chunks) > 1
     /\ \A i \in 1..Len(chunks) : IsTrimmed(chunks[i].content)) =>
        \A i \in 1..Len(result) :
            result[i].endChar = result[i].startChar + Len(result[i].content)

\* ----------------------------------------------------------- greedy packing
\* The paragraphs of s joined by blank lines.
JoinedParagraphs(s) == join(splitByParagraphs(s), <<"\n", "\n">>)

\* C22: with overlapSize = 0, two consecutive returned
\* chunks that both come from paragraph packing are cut only on overflow: the
\* first chunk, a blank line and the first paragraph of the second chunk have
\* an estimate above maxChunkSize; and content whose paragraphs joined by
\* blank lines have an estimate of at most maxChunkSize returns one chunk.
C22_GreedyPacking ==
    (pc = "done" /\ options.overlapSize = 0) =>
        /\ \A i \in 1..(Len(result) - 1) :
              (result[i].via = "paragraphs" /\ result[i + 1].via = "paragraphs") =>
                  estimateTokenCount(
                      result[i].content \o <<"\n", "\n">>
                      \o splitByParagraphs(result[i + 1].content)[1])
                  > options.maxChunkSize
        /\ (/\ ~IsBlank(content)
            /\ estimateTokenCount(JoinedParagraphs(content)) <= options.maxChunkSize)
               => Len(result) = 1

\* A cut between two packed paragraphs, in a document that a larger
\* maxChunkSize would have returned as one chunk.
C22_Witness ==
    /\ pc = "done" /\ options.overlapSize = 0 /\ options.maxChunkSize = 1
    /\ Len(result) = 2
    /\ result[1].via = "paragraphs" /\ result[2].via = "paragraphs"
    /\ estimateTokenCount(JoinedParagraphs(content)) = 2

\* ------------------------------------------------------ sentence boundaries
\* The chunk contents cs are the sentences, in order and each used once, every
\* content one or more consecutive sentences joined by single spaces.
RECURSIVE WholeSentences(_, _)
WholeSentences(cs, sentences) ==
    IF Len(cs) = 0 THEN Len(sentences) = 0
    ELSE \E k \in 1..Len(sentences) :
            /\ cs[1].content = join(SubSeq(sentences, 1, k), <<" ">>)
            /\ WholeSentences(Tail(cs), SubSeq(sentences, k + 1, Len(sentences)))

\* Paragraph n of the content is oversized and each of its sentences fits.
SentencesFit(n) ==
    LET paragraph == splitByParagraphs(content)[n]
        sentences == splitBySentences(paragraph)
    IN  /\ estimateTokenCount(paragraph) > options.maxChunkSize
        /\ \A k \in 1..Len(sentences) :
              estimateTokenCount(sentences[k]) <= options.maxChunkSize

\* C23: with preserveSentences true and overlapSize 0, the chunks made from
\* an oversized paragraph whose sentences each fit maxChunkSize are whole
\* consecutive sentences joined by single spaces, in source order, and every
\* one of them but the last ends with '.', '!' or '?'.
C23_SentenceBoundaries ==
    (pc = "done" /\ options.preserveSentences /\ options.overlapSize = 0) =>
        \A n \in 1..Len(splitByParagraphs(content)) :
            SentencesFit(n) =>
                LET cs == ChunksFrom(result, n)
                IN  /\ WholeSentences(cs,
                           splitBySentences(splitByParagraphs(content)[n]))
                    /\ \A k \in 1..(Len(cs) - 1) :
                          cs[k].content[Len(cs[k].content)] \in SentenceEndChars

\* A paragraph of five sentences came back as chunks of two sentences each
\* and a last chunk that ends without a sentence end.
C23_Witness ==
    /\ pc = "done" /\ options.preserveSentences /\ options.overlapSize = 0
    /\ content = FiveSentencesText
    /\ SentencesFit(1)
    /\ Len(result) = 3
    /\ Len(splitBySentences(result[1].content)) = 2
    /\ Len(splitBySentences(result[2].content)) = 2
    /\ result[3].content[Len(result[3].content)] \notin SentenceEndChars

\* ------------------------------------------------------- unchecked options
\* C24: a call with maxChunkSize <= 0 on content that is not blank is not
\* refused and never returns: every paragraph is oversized, and once the call
\* is made control goes into a character loop that does not end, so the call
\* never has chunks packed and never has a result.
C24_NonPositiveSizeLoops ==
    (/\ pc # "idle"
     /\ options.maxChunkSize <= 0
     /\ ~IsBlank(content)) =>
        /\ pc \in {"called", "looping"}
        /\ \A n \in 1..Len(splitByParagraphs(content)) :
              estimateTokenCount(splitByParagraphs(content)[n])
              > options.maxChunkSize
        /\ chunkLoops(content, documentId, options)
        /\ result = <<>>

\* A call with a negative maxChunkSize is in the loop, with sentences
\* preserved, on a text of several sentences.
C24_Witness ==
    /\ pc = "looping"
    /\ options.maxChunkSize < 0
    /\ options.preserveSentences
    /\ content = ThreeSentencesText
    /\ documentId = "doc-2"

\* ---------------------------------------------------------- offset ranges
\* Chunk i + 1 of the result is the first chunk split from an oversized
\* paragraph and chunk i is the accumulated chunk flushed just before it.
FlushedBeforeSplit(i) ==
    /\ result[i].via = "paragraphs"
    /\ result[i + 1].via \in {"sentences", "characters"}

\* C25: with overlapSize = 0 and maxChunkSize >= 1, the offset ranges of
\* consecutive returned chunks are ordered and do not overlap: endChar of
\* chunk i is at most startChar of chunk i + 1, also where an accumulated
\* chunk is flushed immediately before an oversized paragraph is split.
C25_RangesOrdered ==
    (pc = "done" /\ options.overlapSize = 0 /\ options.maxChunkSize >= 1) =>
        \A i \in 1..(Len(result) - 1) :
            result[i].endChar <= result[i + 1].startChar

\* The ranges are ordered everywhere but at a flush before a split.
C25_OrderedButAtFlush ==
    (pc = "done" /\ options.overlapSize = 0 /\ options.maxChunkSize >= 1) =>
        \A i \in 1..(Len(result) - 1) :
            ~FlushedBeforeSplit(i) =>
                result[i].endChar <= result[i + 1].startChar

\* At a flush before a split the two chunks start at the same offset.
C25_SameStartAtFlush ==
    (pc = "done" /\ options.overlapSize = 0 /\ options.maxChunkSize >= 1) =>
        \A i \in 1..(Len(result) - 1) :
            FlushedBeforeSplit(i) =>
                result[i + 1].startChar = result[i].startChar

\* C26: with overlapSize = 0 and maxChunkSize >= 1, the recorded span of every
\* returned chunk has the length of its content, endChar - startChar =
\* Len(content), whether the chunk comes from paragraph packing, from sentence
\* packing or from character splitting.
C26_SpanIsContentLength ==
    (pc = "done" /\ options.overlapSize = 0 /\ options.maxChunkSize >= 1) =>
        \A i \in 1..Len(result) :
            result[i].endChar - result[i].startChar = Len(result[i].content)

\* A result without overlap holds chunks of all three paths.
C26_Witness ==
    /\ pc = "done" /\ options.overlapSize = 0 /\ options.maxChunkSize >= 1
    /\ \A level \in {"paragraphs", "sentences", "characters"} :
          \E i \in 1..Len(result) : result[i].via = level

\* ------------------------------------------------------------- completeness
\* s without its whitespace characters.
WithoutWhitespace(s) ==
    LET isText(c) == c \notin Whitespace
    IN  SelectSeq(s, isText)

\* The contents of the returned chunks, one after the other.
ReturnedText == join([k \in 1..Len(result) |-> result[k].content], <<>>)

\* C27: with overlapSize = 0 and maxChunkSize >= 1 no text is lost, doubled
\* or reordered: the contents of the returned chunks, concatenated in
\* position order, are the input content once all whitespace is deleted from
\* both, for both preserveSentences values.
C27_NoTextLost ==
    (pc = "done" /\ options.overlapSize = 0 /\ options.maxChunkSize >= 1) =>
        /\ \A i \in 1..Len(result) : result[i].position = i - 1
        /\ WithoutWhitespace(ReturnedText) = WithoutWhitespace(content)

\* The interleaved document was returned with sentences preserved: an
\* accumulated paragraph, packed sentences and the slices of an oversized
\* sentence.
C27_Witness ==
    /\ pc = "done" /\ options.overlapSize = 0 /\ options.maxChunkSize = 1
    /\ options.preserveSentences
    /\ content = InterleavedText
    /\ \A level \in {"paragraphs", "sentences", "characters"} :
          \E i \in 1..Len(result) : result[i].via = level

\* ------------------------------------------------------ bound by the path
\* C28: with maxChunkSize >= 1, every chunk made by paragraph packing or by
\* sentence packing has an estimate of at most maxChunkSize before overlap is
\* added; only the chunks of the character split are not held to the bound.
C28_PackedChunksFit ==
    (pc \in {"packed", "done"} /\ options.maxChunkSize >= 1) =>
        \A i \in 1..Len(chunks) :
            chunks[i].via \in {"paragraphs", "sentences"} =>
                estimateTokenCount(chunks[i].content) <= options.maxChunkSize

\* Chunks of all three paths were packed, and a character slice among them
\* is over the bound.
C28_Witness ==
    /\ pc = "packed" /\ options.maxChunkSize >= 1
    /\ \E i \in 1..Len(chunks) : chunks[i].via = "paragraphs"
    /\ \E i \in 1..Len(chunks) : chunks[i].via = "sentences"
    /\ \E i \in 1..Len(chunks) :
          /\ chunks[i].via = "characters"
          /\ estimateTokenCount(chunks[i].content) > options.maxChunkSize

\* ------------------------------------------------------ no chunks at all
\* C29: with maxChunkSize >= 1, content that holds a character that is not
\* whitespace yields at least one chunk, so chunk() returns the empty
\* sequence for blank content only; and ingest() throws 'Document chunking
\* produced no chunks' only for a processor that returned blank content.
C29_NonBlankYieldsChunk ==
    /\ (pc = "done" /\ options.maxChunkSize >= 1) =>
           (Len(result) = 0 <=> IsBlank(content))
    /\ (outcome.made /\ outcome.kind = "threw"
        /\ outcome.message = "Document chunking produced no chunks") =>
           (processedDoc.made /\ IsBlank(processedDoc.content))

\* The same for the chunks ingest() gets: once the document is chunked, there
\* are no chunks exactly when the processed content is blank.
C29_IngestedChunks ==
    (processedDoc.made /\ ipc # "processing") =>
        (Len(ingestChunks) = 0 <=> IsBlank(processedDoc.content))

\* Content made of whitespace and sentence ends only, with whitespace around
\* it, was returned as one chunk, overlap requested.
C29_Witness ==
    /\ pc = "done" /\ options.maxChunkSize >= 1 /\ options.overlapSize > 0
    /\ ~IsBlank(content)
    /\ \A i \in 1..Len(content) : content[i] \in Whitespace \cup SentenceEndChars
    /\ content[1] \in Whitespace /\ content[Len(content)] \in Whitespace
    /\ Len(result) = 1

\* ingest() threw for lack of chunks.
C29_NoChunksThrown ==
    /\ ipc = "threw"
    /\ outcome.message = "Document chunking produced no chunks"
    /\ IsBlank(processedDoc.content)

\* ------------------------------------------------------- stores at rest
\* The chunk ids of the document being ingested that the vector store holds.
HeldVectorIds ==
    {r.id : r \in vectorStore} \cap Range(chunkIds(ingestChunks))

\* The relational store holds the document and exactly its chunk rows.
DocumentStored ==
    /\ processedDoc.id \in documents
    /\ {row \in chunkRows : row.documentId = processedDoc.id} = rowsOf(ingestChunks)

\* C30: once an ingest() call that got a document from its processor has
\* returned or thrown, the vector store holds records of the document's
\* chunk ids exactly when the relational store holds the document and its
\* chunk rows, it then holds a record of every chunk, and after a throw it
\* holds none.
C30_StoreConsistency ==
    (ipc \in {"returned", "threw"} /\ processedDoc.made) =>
        /\ HeldVectorIds # {} <=> DocumentStored
        /\ HeldVectorIds # {} => HeldVectorIds = Range(chunkIds(ingestChunks))
        /\ ipc = "threw" => HeldVectorIds = {}

\* One direction holds for every outcome: a stored document has a vector
\* record for each of its chunks.
C30_StoredHasVectors ==
    (ipc \in {"returned", "threw"} /\ processedDoc.made /\ DocumentStored) =>
        HeldVectorIds = Range(chunkIds(ingestChunks))

\* Vectors without a stored document are left only by the call that upserted,
\* had its transaction fail and then called the compensating delete.
C30_OrphansOnlyAfterCleanup ==
    (ipc \in {"returned", "threw"} /\ processedDoc.made
     /\ HeldVectorIds # {} /\ ~DocumentStored) =>
        /\ ipc = "threw"
        /\ Len(calls) = 3
        /\ calls[1].op = "upsert" /\ calls[2].op = "transaction"
        /\ calls[3].op = "delete"
        /\ calls[3].ids = chunkIds(ingestChunks)

\* ingest() threw after its compensating delete was called, and the vectors
\* of all three chunks are still in the vector store.
C30_OrphanedVectors ==
    /\ ipc = "threw"
    /\ Len(ingestChunks) = 3
    /\ Len(calls) = 3 /\ calls[3].op = "delete"
    /\ HeldVectorIds = Range(chunkIds(ingestChunks))
    /\ ~DocumentStored
====
